---- MODULE Spec2Model ----
(***************************************************************************)
(* Model of cruncher.py: the join of the syscall status spreadsheet with   *)
(* the per-application JSON reports, and the two CSV reports printed from  *)
(* the three dictionaries apps, syscalls and undefined_syscalls.           *)
(*                                                                         *)
(* Python strings are TLA+ strings (Len, \o and SubSeq act on them).       *)
(* A Python dict whose iteration order matters is a record                 *)
(*   [keys |-> sequence of keys in insertion order, val |-> function].     *)
(***************************************************************************)
EXTENDS Integers, Sequences, FiniteSets, TLC

VARIABLES
    pc,                  \* position of main(): "start", "walk", "done", "failed"
    args,                \* parsed command line: [apps, syscalls] flags
    syscalls,            \* dict: syscall name -> [id, name, status, apps]
    apps,                \* dict: application name -> (status -> list of symbols)
    undefined_syscalls,  \* dict: symbol -> [name, apps]
    stdout,              \* lines printed so far
    loaded,              \* history: <<app_name, local_set>> of every call that returned
    raised,              \* the exception that ended the run, "" if none
    last_call,           \* history: <<app_name, json_data>> of the latest call
    status_cell,         \* normalizer runs: raw text of a status cell
    status_str,          \* normalizer runs: the text after lines 170-186
    npc                  \* normalizer runs: "raw", "once", "twice" ("idle" in runs of main)

vars == <<pc, args, syscalls, apps, undefined_syscalls, stdout, loaded, raised,
          last_call, status_cell, status_str, npc>>

-----------------------------------------------------------------------------
(* Bounds of the model *)

MaxRows == 2      \* data rows of the worksheet
MaxLoads == 2     \* application JSON files found by the walk
MaxFragments == 2 \* fragments concatenated into a raw status text

-----------------------------------------------------------------------------
(* Constants of the program *)

STATIC_DATA == "static_data"
DYNAMIC_DATA == "dynamic_data"
SYSCALLS_DATA == "system_calls"

\* The keys of the dictionary literal stored in apps[app_name].
Statuses == {"OKAY", "ABSENT", "NOT_IMPL", "INCOMPLETE", "REG_MISS",
             "STUBBED", "BROKEN", "IN_PROGRESS", "PLANNED"}

-----------------------------------------------------------------------------
(* Helpers for Python values *)

\* needle in hay, for strings
Contains(needle, hay) ==
    \E i \in 1..(Len(hay) - Len(needle) + 1) :
        SubSeq(hay, i, i + Len(needle) - 1) = needle

EmptyDict == [keys |-> <<>>, val |-> <<>>]

Has(d, k) == k \in DOMAIN d.val

\* d[k] = v : a new key goes last, an old key keeps its place
DictSet(d, k, v) ==
    [keys |-> IF Has(d, k) THEN d.keys ELSE Append(d.keys, k),
     val  |-> (k :> v) @@ d.val]

Range(s) == {s[i] : i \in 1..Len(s)}

\* The orders in which iterating a set can yield its elements.
Orders(S) ==
    {o \in [1..Cardinality(S) -> S] : \A i, j \in 1..Cardinality(S) : o[i] = o[j] => i = j}

-----------------------------------------------------------------------------
(* process_syscall_spreadsheet *)

\* The id cell of a row is a text cell, held as the sequence of the code
\* points of its characters, so that int() is modelled on every text.

\* Code points of the characters int() treats as blanks at both ends of a text
Spaces ==
    {9, 10, 11, 12, 13, 32, 133, 160, 5760, 8232, 8233, 8239, 8287, 12288}
    \cup (8192..8202)

IsSpace(c) == c \in Spaces

\* Code points of the digit zero of every decimal digit run int() reads (the
\* characters of Unicode category Nd); the digits 1-9 of a run follow its zero.
DigitZeros ==
    {48, 1632, 1776, 1984, 2406, 2534, 2662, 2790, 2918, 3046, 3174, 3302,
     3430, 3558, 3664, 3792, 3872, 4160, 4240, 6112, 6160, 6470, 6608, 6784,
     6800, 6992, 7088, 7232, 7248, 42528, 43216, 43264, 43472, 43504, 43600,
     44016, 65296, 66720, 68912, 69734, 69872, 69942, 70096, 70384, 70736,
     70864, 71248, 71360, 71472, 71904, 72016, 72784, 73040, 73120, 92768,
     92864, 93008, 120782, 120792, 120802, 120812, 120822, 123200, 123632,
     125264, 130032}

IsDigit(c) == \E z \in DigitZeros : z <= c /\ c <= z + 9

DigitValue(c) == c - (CHOOSE z \in DigitZeros : z <= c /\ c <= z + 9)

RECURSIVE Strip(_)
Strip(s) ==
    IF Len(s) > 0 /\ IsSpace(s[1]) THEN Strip(SubSeq(s, 2, Len(s)))
    ELSE IF Len(s) > 0 /\ IsSpace(s[Len(s)]) THEN Strip(SubSeq(s, 1, Len(s) - 1))
    ELSE s

PlusSign == 43
MinusSign == 45
Underscore == 95

HasSign(s) == Len(s) > 0 /\ s[1] \in {PlusSign, MinusSign}

Unsigned(s) == IF HasSign(s) THEN SubSeq(s, 2, Len(s)) ELSE s

\* Decimal digits, with single underscores allowed between two digits; a text
\* of more than 4300 digits is refused (the interpreter's default limit)
IsDecimal(s) ==
    /\ Len(s) > 0
    /\ \A i \in 1..Len(s) :
          \/ IsDigit(s[i])
          \/ /\ s[i] = Underscore
             /\ 1 < i /\ i < Len(s)
             /\ IsDigit(s[i - 1])
             /\ IsDigit(s[i + 1])
    /\ Cardinality({i \in 1..Len(s) : IsDigit(s[i])}) <= 4300

RECURSIVE DecimalValue(_)
DecimalValue(s) ==
    IF Len(s) = 0 THEN 0
    ELSE IF s[Len(s)] = Underscore THEN DecimalValue(SubSeq(s, 1, Len(s) - 1))
    ELSE 10 * DecimalValue(SubSeq(s, 1, Len(s) - 1)) + DigitValue(s[Len(s)])

\* int(cell) of a text cell, with ValueError replaced by -1: the text is
\* stripped, may start with a sign, and is read in base 10
SyscallId(cell) ==
    LET text == Strip(cell)
        digits == Unsigned(text)
    IN  IF IsDecimal(digits)
        THEN IF text[1] = MinusSign THEN 0 - DecimalValue(digits) ELSE DecimalValue(digits)
        ELSE -1

\* The elif chain in the reverse order
StatusRulesReordered ==
    << <<"okay", "OKAY">>,
       <<"broken", "BROKEN">>,
       <<"progress", "IN_PROGRESS">>,
       <<"planned", "PLANNED">>,
       <<"stubbed", "STUBBED">>,
       <<"registration missing", "REG_MISS">>,
       <<"incomplete", "INCOMPLETE">> >>

\* The elif chain, in source order: <<keyword, status>>
StatusRules ==
    << <<"incomplete", "INCOMPLETE">>,
       <<"registration missing", "REG_MISS">>,
       <<"stubbed", "STUBBED">>,
       <<"planned", "PLANNED">>,
       <<"progress", "IN_PROGRESS">>,
       <<"broken", "BROKEN">>,
       <<"okay", "OKAY">> >>

RECURSIVE FirstMatch(_, _)
FirstMatch(text, i) ==
    IF i > Len(StatusRules) THEN text
    ELSE IF Contains(StatusRules[i][1], text) THEN StatusRules[i][2]
    ELSE FirstMatch(text, i + 1)

Recognized(text) == \E i \in 1..Len(StatusRules) : Contains(StatusRules[i][1], text)

\* A normalizer with a final else branch that coerces unrecognized text.
NormalizeStatusCoercing(text) ==
    IF Len(text) = 0 \/ ~Recognized(text) THEN "NOT_IMPL" ELSE FirstMatch(text, 1)

NormalizeStatus(text) ==
    IF Len(text) = 0 THEN "NOT_IMPL" ELSE FirstMatch(text, 1)

\* The data rows a worksheet can hold: <<id cell, name cell, status cell>>.
\* The id cells are the texts "57", " 12", "n/a", "-3" and "1_0".
SheetRows ==
    { << <<53, 55>>, "fork", "" >>,
      << <<32, 49, 50>>, "brk", "okay, fully supported" >>,
      << <<110, 47, 97>>, "brk", "in progress, incomplete" >>,
      << <<45, 51>>, "fork", "ABSENT" >>,
      << <<49, 95, 48>>, "brk", "wontfix" >> }

Worksheets == UNION {[1..n -> SheetRows] : n \in 0..MaxRows}

\* data_sheet: the three column lists, one entry per data row
process_syscall_spreadsheet(worksheet) ==
    << [row \in 1..Len(worksheet) |-> SyscallId(worksheet[row][1])],
       [row \in 1..Len(worksheet) |-> worksheet[row][2]],
       [row \in 1..Len(worksheet) |-> NormalizeStatus(worksheet[row][3])] >>

-----------------------------------------------------------------------------
(* main, lines 238-249: the syscalls dictionary *)

EmptyApps == <<>>

\* A version whose records start with the syscall's own name on the apps list
RECURSIVE BuildSyscallsSeeded(_, _, _)
BuildSyscallsSeeded(d, data_sheet, i) ==
    IF i > Len(data_sheet[1]) THEN d
    ELSE BuildSyscallsSeeded(
            DictSet(d, data_sheet[2][i],
                    [id |-> data_sheet[1][i], name |-> data_sheet[2][i],
                     status |-> data_sheet[3][i], apps |-> <<data_sheet[2][i]>>]),
            data_sheet, i + 1)

RECURSIVE BuildSyscalls(_, _, _)
BuildSyscalls(d, data_sheet, i) ==
    IF i > Len(data_sheet[1]) THEN d
    ELSE BuildSyscalls(
            DictSet(d, data_sheet[2][i],
                    [id |-> data_sheet[1][i], name |-> data_sheet[2][i],
                     status |-> data_sheet[3][i], apps |-> EmptyApps]),
            data_sheet, i + 1)

-----------------------------------------------------------------------------
(* process_application_json *)

\* The symbols the static and the dynamic analysis can report.
StaticSymbols == {"brk", "fork"}
DynamicSymbols == {"brk"}
Symbols == StaticSymbols \cup DynamicSymbols

\* A section of a document: an object that may hold the "system_calls" object,
\* whose keys are the symbols.
Sections(pool) == {<<>>} \cup {[k \in {SYSCALLS_DATA} |-> S] : S \in SUBSET pool}

SectionPool(section) == IF section = STATIC_DATA THEN StaticSymbols ELSE DynamicSymbols

\* A parsed JSON document: either section may be missing.
Documents ==
    UNION {{d \in [K -> Sections(Symbols)] : \A k \in K : d[k] \in Sections(SectionPool(k))} :
           K \in SUBSET {STATIC_DATA, DYNAMIC_DATA}}

\* Lines 72-81: a present section is indexed by "system_calls" (KeyError if
\* that key is missing).
SectionRaises(json_data, section) ==
    section \in DOMAIN json_data /\ SYSCALLS_DATA \notin DOMAIN json_data[section]

SectionSymbols(json_data, section) ==
    IF section \in DOMAIN json_data THEN json_data[section][SYSCALLS_DATA] ELSE {}

\* local_set without the second section
LocalSetStaticOnly(json_data) == SectionSymbols(json_data, STATIC_DATA)

LocalSet(json_data) ==
    SectionSymbols(json_data, STATIC_DATA) \cup SectionSymbols(json_data, DYNAMIC_DATA)

JsonRaises(json_data) ==
    SectionRaises(json_data, STATIC_DATA) \/ SectionRaises(json_data, DYNAMIC_DATA)

\* The orders in which the two loops over local_set can run (one order per
\* call: the set is not changed between the loops).
IterationOrders(json_data) ==
    IF JsonRaises(json_data) THEN {<<>>} ELSE Orders(LocalSet(json_data))

\* Lines 84-94
EmptyBuckets == [s \in Statuses |-> <<>>]

\* A version of line 99 that files a symbol without a table row under
\* NOT_IMPL
StatusOfUnknownNotImpl(sc, symbol) ==
    IF Has(sc, symbol) THEN sc.val[symbol].status ELSE "NOT_IMPL"

\* Lines 96-99
StatusOf(sc, symbol) ==
    IF Has(sc, symbol) THEN sc.val[symbol].status ELSE "ABSENT"

\* Lines 95-100: the loop stops with KeyError at the first symbol whose status
\* is no key of the bucket dictionary; the buckets filled so far stay.
RECURSIVE FillBuckets(_, _, _, _)
FillBuckets(buckets, sc, order, i) ==
    IF i > Len(order) THEN [buckets |-> buckets, raised |-> ""]
    ELSE LET status == StatusOf(sc, order[i]) IN
         IF status \notin DOMAIN buckets
         THEN [buckets |-> buckets, raised |-> "KeyError"]
         ELSE FillBuckets([buckets EXCEPT ![status] = Append(@, order[i])],
                          sc, order, i + 1)

\* A version that puts the name first (insert(0, ...) for append)
AppendAppFirst(d, symbol, app_name) ==
    [d EXCEPT !.val[symbol].apps = <<app_name>> \o @]

\* Line 111
AppendApp(d, symbol, app_name) ==
    [d EXCEPT !.val[symbol].apps = Append(@, app_name)]

\* A version without the test of line 113: the entry is created anew on
\* every reference.
NoteUndefinedAnew(d, symbol, app_name) ==
    AppendApp(DictSet(d, symbol, [name |-> symbol, apps |-> <<>>]), symbol, app_name)

\* Lines 113-118
NoteUndefined(d, symbol, app_name) ==
    AppendApp(IF Has(d, symbol) THEN d
              ELSE DictSet(d, symbol, [name |-> symbol, apps |-> <<>>]),
              symbol, app_name)

\* Lines 104-118, on the pair <<syscalls, undefined_syscalls>>
RECURSIVE UpdateSyscalls(_, _, _, _)
UpdateSyscalls(tables, order, app_name, i) ==
    IF i > Len(order) THEN tables
    ELSE LET found == \E j \in 1..Len(tables[1].keys) : tables[1].keys[j] = order[i] IN
         UpdateSyscalls(
            IF found
            THEN <<AppendApp(tables[1], order[i], app_name), tables[2]>>
            ELSE <<tables[1], NoteUndefined(tables[2], order[i], app_name)>>,
            order, app_name, i + 1)

\* Lines 68-118 with the bucket dictionary that line 84 stores given as
\* fresh: the three dictionaries after the call, and the exception it raised
\* if any. order is the order in which this run iterates local_set.
ProcessFrom(fresh, app_name, json_data, order) ==
    IF JsonRaises(json_data)
    THEN [apps |-> apps, syscalls |-> syscalls,
          undefined_syscalls |-> undefined_syscalls, raised |-> "KeyError"]
    ELSE LET filled == FillBuckets(fresh, syscalls, order, 1)
             stored == DictSet(apps, app_name, filled.buckets)
             tables == UpdateSyscalls(<<syscalls, undefined_syscalls>>, order, app_name, 1)
         IN  IF filled.raised # ""
             THEN [apps |-> stored, syscalls |-> syscalls,
                   undefined_syscalls |-> undefined_syscalls, raised |-> filled.raised]
             ELSE [apps |-> stored, syscalls |-> tables[1],
                   undefined_syscalls |-> tables[2], raised |-> ""]

\* A version that keeps the buckets of an earlier record of the same name
\* (apps.setdefault instead of the assignment of line 84).
process_application_json_merging(app_name, json_data, order) ==
    ProcessFrom(IF Has(apps, app_name) THEN apps.val[app_name] ELSE EmptyBuckets,
                app_name, json_data, order)

process_application_json(app_name, json_data, order) ==
    ProcessFrom(EmptyBuckets, app_name, json_data, order)

-----------------------------------------------------------------------------
(* walk_application_json_folder *)

\* Names of the files the walk can meet, in any directory of the tree.
Files == {"app1.json", "app2.json"}

JsonSuffix == ".json"

EndsWith(text, suffix) ==
    Len(text) >= Len(suffix) /\
    SubSeq(text, Len(text) - Len(suffix) + 1, Len(text)) = suffix

\* file[:-5]
AppName(file) == SubSeq(file, 1, Len(file) - 5)

-----------------------------------------------------------------------------
(* print_apps, print_syscalls *)

\* "{},{},...".format(...)
RECURSIVE Format(_)
Format(fields) ==
    IF Len(fields) = 0 THEN ""
    ELSE IF Len(fields) = 1 THEN fields[1]
    ELSE fields[1] \o "," \o Format(Tail(fields))

AppsHeader ==
    Format(<<"app", "total", "okay", "not_impl", "reg_miss", "incomplete",
             "stubbed", "planned", "broken", "in_progress", "absent">>)

\* Line 208
Total(okay, not_impl, incomplete, reg_miss, stubbed, planned, in_progress, broken, absent) ==
    okay + not_impl + incomplete + reg_miss + stubbed + planned + in_progress + broken

\* Lines 199-211
AppRow(a) ==
    LET okay == Len(apps.val[a]["OKAY"])
        not_impl == Len(apps.val[a]["NOT_IMPL"])
        incomplete == Len(apps.val[a]["INCOMPLETE"])
        reg_miss == Len(apps.val[a]["REG_MISS"])
        stubbed == Len(apps.val[a]["STUBBED"])
        planned == Len(apps.val[a]["PLANNED"])
        in_progress == Len(apps.val[a]["IN_PROGRESS"])
        broken == Len(apps.val[a]["BROKEN"])
        absent == Len(apps.val[a]["ABSENT"])
        total == Total(okay, not_impl, incomplete, reg_miss, stubbed, planned,
                       in_progress, broken, absent)
    IN  Format(<<a, ToString(total), ToString(okay), ToString(not_impl),
                 ToString(reg_miss), ToString(incomplete), ToString(stubbed),
                 ToString(planned), ToString(broken), ToString(in_progress),
                 ToString(absent)>>)

print_apps ==
    <<AppsHeader>> \o [i \in 1..Len(apps.keys) |-> AppRow(apps.keys[i])]

SyscallsHeader == Format(<<"syscall", "status", "num_apps">>)

\* Line 220
SyscallRow(s) ==
    Format(<<s, syscalls.val[s].status, ToString(Len(syscalls.val[s].apps))>>)

\* A version that counts the fields of the record, not its apps
UndefinedRowRecordLen(s) ==
    Format(<<s, "ABSENT", ToString(Cardinality(DOMAIN undefined_syscalls.val[s]))>>)

\* Line 222
UndefinedRow(s) ==
    Format(<<s, "ABSENT", ToString(Len(undefined_syscalls.val[s].apps))>>)

print_syscalls ==
    <<SyscallsHeader>>
    \o [i \in 1..Len(syscalls.keys) |-> SyscallRow(syscalls.keys[i])]
    \o [i \in 1..Len(undefined_syscalls.keys) |-> UndefinedRow(undefined_syscalls.keys[i])]

-----------------------------------------------------------------------------
(* main *)

NoArgs == [apps |-> FALSE, syscalls |-> FALSE]

Init ==
    /\ pc = "start"
    /\ args = NoArgs
    /\ syscalls = EmptyDict
    /\ apps = EmptyDict
    /\ undefined_syscalls = EmptyDict
    /\ stdout = <<>>
    /\ loaded = <<>>
    /\ raised = ""
    /\ last_call = <<>>
    /\ status_cell = ""
    /\ status_str = ""
    /\ npc = "idle"

\* Lines 238-249: the spreadsheet is read and the syscalls dictionary is built
\* from its rows.
ReadSpreadsheet ==
    /\ pc = "start"
    /\ \E worksheet \in Worksheets :
          syscalls' = BuildSyscalls(syscalls, process_syscall_spreadsheet(worksheet), 1)
    /\ pc' = "walk"
    /\ UNCHANGED <<args, apps, undefined_syscalls, stdout, loaded, raised,
                   last_call, status_cell, status_str, npc>>

\* Lines 127-134: the next file of the walk is a JSON file and is processed;
\* an exception of process_application_json ends the run.
WalkFile ==
    /\ pc = "walk"
    /\ Len(loaded) < MaxLoads
    /\ \E file \in Files, json_data \in Documents :
          /\ EndsWith(file, JsonSuffix)
          /\ \E order \in IterationOrders(json_data) :
                LET after == process_application_json(AppName(file), json_data, order) IN
                /\ apps' = after.apps
                /\ syscalls' = after.syscalls
                /\ undefined_syscalls' = after.undefined_syscalls
                /\ raised' = after.raised
                /\ last_call' = <<AppName(file), json_data>>
                /\ pc' = IF after.raised = "" THEN "walk" ELSE "failed"
                /\ loaded' = IF after.raised = ""
                             THEN Append(loaded, <<AppName(file), LocalSet(json_data)>>)
                             ELSE loaded
    /\ UNCHANGED <<args, stdout, status_cell, status_str, npc>>

\* Lines 253-256, with the flags of lines 231-236, which nothing reads earlier
Report ==
    /\ pc = "walk"
    /\ \E a \in [apps : BOOLEAN, syscalls : BOOLEAN] :
          /\ args' = a
          /\ stdout' = stdout \o (IF a.apps THEN print_apps ELSE <<>>)
                              \o (IF a.syscalls THEN print_syscalls ELSE <<>>)
    /\ pc' = "done"
    /\ UNCHANGED <<syscalls, apps, undefined_syscalls, loaded, raised,
                   last_call, status_cell, status_str, npc>>

Next == ReadSpreadsheet \/ WalkFile \/ Report

Spec == Init /\ [][Next]_vars

-----------------------------------------------------------------------------
(* The status normalizer (lines 170-187) alone, on a larger set of cell texts *)

\* Pieces of status text: the keywords, pieces that form a keyword only when
\* joined, other text, and the nine status names.
Fragments ==
    {"incomplete", "registration missing", "stubbed", "planned", "progress",
     "broken", "okay", "in", "complete", ", ", "Okay", "wontfix"} \cup Statuses

RECURSIVE Concat(_)
Concat(pieces) == IF Len(pieces) = 0 THEN "" ELSE pieces[1] \o Concat(Tail(pieces))

StatusCells == {Concat(p) : p \in UNION {[1..n -> Fragments] : n \in 0..MaxFragments}}

InitNorm ==
    /\ pc = "start"
    /\ args = NoArgs
    /\ syscalls = EmptyDict
    /\ apps = EmptyDict
    /\ undefined_syscalls = EmptyDict
    /\ stdout = <<>>
    /\ loaded = <<>>
    /\ raised = ""
    /\ last_call = <<>>
    /\ status_cell \in StatusCells
    /\ status_str = ""
    /\ npc = "raw"

\* Lines 170-187 on the cell
NormalizeCell ==
    /\ npc = "raw"
    /\ status_str' = NormalizeStatus(status_cell)
    /\ npc' = "once"
    /\ UNCHANGED <<pc, args, syscalls, apps, undefined_syscalls, stdout, loaded,
                   raised, last_call, status_cell>>

\* Lines 170-187 on their own result (a sheet that already holds the
\* normalized text)
NormalizeAgain ==
    /\ npc = "once"
    /\ status_cell' = status_str
    /\ status_str' = NormalizeStatus(status_str)
    /\ npc' = "twice"
    /\ UNCHANGED <<pc, args, syscalls, apps, undefined_syscalls, stdout, loaded,
                   raised, last_call>>

NextNorm == NormalizeCell \/ NormalizeAgain

SpecNorm == InitNorm /\ [][NextNorm]_vars

-----------------------------------------------------------------------------
(* Vocabulary of the properties *)

AppKeys == DOMAIN apps.val

Bucket(a, status) == apps.val[a][status]

InBucket(x, a, status) == \E i \in 1..Len(Bucket(a, status)) : Bucket(a, status)[i] = x

\* Sum of the lengths of the nine buckets of the record of a
BucketSum(a) ==
    Len(Bucket(a, "OKAY")) + Len(Bucket(a, "NOT_IMPL")) + Len(Bucket(a, "REG_MISS"))
    + Len(Bucket(a, "INCOMPLETE")) + Len(Bucket(a, "STUBBED")) + Len(Bucket(a, "PLANNED"))
    + Len(Bucket(a, "BROKEN")) + Len(Bucket(a, "IN_PROGRESS")) + Len(Bucket(a, "ABSENT"))

\* The symbols of a document: the keys of both "system_calls" objects
DocSymbols(doc) ==
    {x \in Symbols :
        \/ "static_data" \in DOMAIN doc /\ x \in doc["static_data"]["system_calls"]
        \/ "dynamic_data" \in DOMAIN doc /\ x \in doc["dynamic_data"]["system_calls"]}

\* The latest call returned.
LastReturned == last_call # <<>> /\ raised = ""

\* The record of a was stored by a call that returned.
StoredByReturnedCall(a) == ~(raised # "" /\ last_call # <<>> /\ last_call[1] = a)

\* Names of the returned loads whose symbol set contains x, in load order
Referencing(x) ==
    LET sel == SelectSeq(loaded, LAMBDA e : x \in e[2])
    IN  [i \in 1..Len(sel) |-> sel[i][1]]

\* Index in loaded of the latest returned load of a (0 if none)
LastLoadOf(a) ==
    IF \E i \in 1..Len(loaded) : loaded[i][1] = a
    THEN CHOOSE i \in 1..Len(loaded) :
            loaded[i][1] = a /\ \A j \in (i + 1)..Len(loaded) : loaded[j][1] # a
    ELSE 0

InUndefined(x, a) ==
    /\ x \in DOMAIN undefined_syscalls.val
    /\ \E i \in 1..Len(undefined_syscalls.val[x].apps) : undefined_syscalls.val[x].apps[i] = a

\* Text of the app report row of a with the given total
ReportedAppRow(a, total) ==
    a \o "," \o ToString(total)
      \o "," \o ToString(Len(Bucket(a, "OKAY")))
      \o "," \o ToString(Len(Bucket(a, "NOT_IMPL")))
      \o "," \o ToString(Len(Bucket(a, "REG_MISS")))
      \o "," \o ToString(Len(Bucket(a, "INCOMPLETE")))
      \o "," \o ToString(Len(Bucket(a, "STUBBED")))
      \o "," \o ToString(Len(Bucket(a, "PLANNED")))
      \o "," \o ToString(Len(Bucket(a, "BROKEN")))
      \o "," \o ToString(Len(Bucket(a, "IN_PROGRESS")))
      \o "," \o ToString(Len(Bucket(a, "ABSENT")))

AppsPrinted == pc = "done" /\ args.apps

SyscallsPrinted == pc = "done" /\ args.syscalls

\* Lines of stdout before the syscall report
SyscallsOffset == IF args.apps THEN 1 + Len(apps.keys) ELSE 0

-----------------------------------------------------------------------------
(* C1 *)

\* C1: in the app report every application row's total column is the sum of
\* the other nine printed counts (okay, not_impl, reg_miss, incomplete,
\* stubbed, planned, broken, in_progress, absent).
C1_TotalIsSumOfNine ==
    AppsPrinted =>
        \A i \in 1..Len(apps.keys) :
            stdout[i + 1] = ReportedAppRow(apps.keys[i], BucketSum(apps.keys[i]))

-----------------------------------------------------------------------------
(* C2 *)

\* C2: after process_application_json(app, doc) returns, the lengths of the
\* nine buckets of apps[app] sum to the number of distinct symbols of doc's
\* two sections together, and every such symbol is in exactly one bucket,
\* exactly once.
C2_BucketsPartitionSymbols ==
    LastReturned =>
        LET a == last_call[1]
            S == DocSymbols(last_call[2])
        IN  /\ a \in AppKeys
            /\ BucketSum(a) = Cardinality(S)
            /\ \A x \in Symbols :
                  Cardinality({<<st, i>> \in Statuses \X (1..Cardinality(Symbols)) :
                                  i <= Len(Bucket(a, st)) /\ Bucket(a, st)[i] = x})
                  = IF x \in S THEN 1 ELSE 0

\* A call returned whose document names the same symbol in both sections and
\* another symbol in one only.
C2_Witness ==
    /\ LastReturned
    /\ "static_data" \in DOMAIN last_call[2]
    /\ "dynamic_data" \in DOMAIN last_call[2]
    /\ last_call[2]["static_data"]["system_calls"] = {"brk", "fork"}
    /\ last_call[2]["dynamic_data"]["system_calls"] = {"brk"}
    /\ BucketSum(last_call[1]) = 2

-----------------------------------------------------------------------------
(* C3 *)

\* C3: for every syscall s of the status table, syscalls[s].apps is the
\* sequence, in load order, of the names of the loaded applications whose
\* symbol set contains s (one entry per load).
C3_AppsListIsLoadOrder ==
    \A s \in DOMAIN syscalls.val : syscalls.val[s].apps = Referencing(s)

\* Two different applications were loaded that both reference brk, and an
\* application that does not reference fork was loaded.
C3_Witness ==
    /\ "brk" \in DOMAIN syscalls.val
    /\ "fork" \in DOMAIN syscalls.val
    /\ syscalls.val["brk"].apps = <<"app2", "app1">>
    /\ Len(syscalls.val["fork"].apps) = 1

-----------------------------------------------------------------------------
(* C4 *)

\* C4 as claimed: for every application record a and symbol x, x is in
\* apps[a]['ABSENT'] if and only if x is a key of undefined_syscalls with a in
\* its apps list; and no key of undefined_syscalls is a key of syscalls.
C4_AbsentIffUndefined ==
    /\ \A a \in AppKeys : \A x \in Symbols : InBucket(x, a, "ABSENT") <=> InUndefined(x, a)
    /\ DOMAIN undefined_syscalls.val \cap DOMAIN syscalls.val = {}

\* The call that stored the record of a raised inside the bucket loop
\* (line 100), so the record is the partial one of that call.
C4_RecordIsPartial(a) ==
    /\ raised # ""
    /\ last_call # <<>>
    /\ last_call[1] = a
    /\ ~JsonRaises(last_call[2])

\* The symbol set of the call that stored the record of a
C4_RecordSymbols(a) ==
    IF C4_RecordIsPartial(a) THEN DocSymbols(last_call[2])
    ELSE loaded[LastLoadOf(a)][2]

\* x has no row in the status table, or its row carries the status ABSENT
C4_ResolvesToAbsent(x) ==
    x \notin DOMAIN syscalls.val \/ syscalls.val[x].status = "ABSENT"

\* C4 as amended: no key of undefined_syscalls is a key of syscalls, and each
\* entry is named by its key; a is in undefined_syscalls[x].apps exactly when
\* x has no row in the status table and some returned load of a had x in its
\* symbol set; every symbol in the ABSENT bucket of a record is in the symbol
\* set of the call that stored the record and has no table row or a row of
\* status ABSENT; and for a record stored by a returned call, x is in the
\* ABSENT bucket if and only if x is in that call's symbol set and has no
\* table row or a row of status ABSENT, and every symbol of the bucket
\* without a table row has a in its undefined_syscalls entry.
C4_AbsentBucketOfLatestLoad ==
    /\ DOMAIN undefined_syscalls.val \cap DOMAIN syscalls.val = {}
    /\ \A x \in DOMAIN undefined_syscalls.val : undefined_syscalls.val[x].name = x
    /\ \A a \in {AppName(f) : f \in Files} : \A x \in Symbols :
          InUndefined(x, a) <=>
              /\ x \notin DOMAIN syscalls.val
              /\ \E i \in 1..Len(loaded) : loaded[i][1] = a /\ x \in loaded[i][2]
    /\ \A a \in AppKeys : \A x \in Symbols :
          /\ InBucket(x, a, "ABSENT") =>
                x \in C4_RecordSymbols(a) /\ C4_ResolvesToAbsent(x)
          /\ ~C4_RecordIsPartial(a) =>
                /\ InBucket(x, a, "ABSENT") <=>
                      x \in C4_RecordSymbols(a) /\ C4_ResolvesToAbsent(x)
                /\ InBucket(x, a, "ABSENT") /\ x \notin DOMAIN syscalls.val =>
                      InUndefined(x, a)

\* An application was loaded twice, first with fork and brk and then with
\* brk alone, and neither has a table row: brk, of the latest document, is in
\* the ABSENT bucket and in undefined_syscalls; the entry of fork remains
\* while the ABSENT bucket of the stored record does not list fork.
C4_Witness ==
    /\ raised = ""
    /\ Len(loaded) = 2
    /\ loaded[1][1] = loaded[2][1]
    /\ "fork" \notin loaded[2][2]
    /\ InUndefined("fork", loaded[1][1])
    /\ ~InBucket("fork", loaded[1][1], "ABSENT")
    /\ "brk" \in loaded[2][2]
    /\ "brk" \notin DOMAIN syscalls.val
    /\ InBucket("brk", loaded[1][1], "ABSENT")
    /\ InUndefined("brk", loaded[1][1])

-----------------------------------------------------------------------------
(* C5 *)

\* C5: the syscall report is one header row, then one row per SyscallRecord
\* (name, status, length of its apps list) in the order of the syscalls
\* dictionary, then one row per UndefinedSyscallRecord with status ABSENT and
\* the count of referencing loads; no name is in both parts, and a symbol
\* outside the table referenced by exactly one load is listed as
\* <symbol>,ABSENT,1.
C5_SyscallReportRows ==
    SyscallsPrinted =>
        LET off == SyscallsOffset
            n == Len(syscalls.keys)
            m == Len(undefined_syscalls.keys)
        IN  /\ Len(stdout) = off + 1 + n + m
            /\ stdout[off + 1] = "syscall,status,num_apps"
            /\ \A i \in 1..n :
                  stdout[off + 1 + i] =
                      syscalls.keys[i] \o "," \o syscalls.val[syscalls.keys[i]].status
                      \o "," \o ToString(Len(Referencing(syscalls.keys[i])))
            /\ \A j \in 1..m :
                  stdout[off + 1 + n + j] =
                      undefined_syscalls.keys[j] \o ",ABSENT,"
                      \o ToString(Len(Referencing(undefined_syscalls.keys[j])))
            /\ \A i, j \in 1..n : syscalls.keys[i] = syscalls.keys[j] => i = j
            /\ \A i, j \in 1..m : undefined_syscalls.keys[i] = undefined_syscalls.keys[j] => i = j
            /\ Range(syscalls.keys) = DOMAIN syscalls.val
            /\ Range(undefined_syscalls.keys) = DOMAIN undefined_syscalls.val
            /\ Range(syscalls.keys) \cap Range(undefined_syscalls.keys) = {}
            /\ \A x \in Symbols :
                  x \notin DOMAIN syscalls.val /\ Len(Referencing(x)) = 1 =>
                      \E k \in (off + 2 + n)..Len(stdout) : stdout[k] = x \o ",ABSENT,1"

\* Both reports were printed: a table row used by two loads, then a symbol
\* outside the table used by one load.
C5_Witness ==
    /\ pc = "done"
    /\ args.apps
    /\ Len(stdout) = 6
    /\ stdout[5] = "brk,OKAY,2"
    /\ stdout[6] = "fork,ABSENT,1"
    /\ "fork" \notin DOMAIN syscalls.val

-----------------------------------------------------------------------------
(* C7 *)

\* C7: when no application file was loaded, every SyscallRecord's apps list
\* is empty, undefined_syscalls is empty, and the app report is the header
\* row alone.
C7_ZeroLoads ==
    last_call = <<>> =>
        /\ \A s \in DOMAIN syscalls.val : syscalls.val[s].apps = <<>>
        /\ \A i \in 1..Len(syscalls.keys) : syscalls.keys[i] \in DOMAIN syscalls.val
        /\ undefined_syscalls.keys = <<>>
        /\ DOMAIN undefined_syscalls.val = {}
        /\ AppsPrinted =>
              /\ stdout[1] = "app,total,okay,not_impl,reg_miss,incomplete,stubbed,planned,broken,in_progress,absent"
              /\ Len(stdout) = IF args.syscalls THEN 2 + Len(syscalls.keys) ELSE 1
              /\ args.syscalls => stdout[2] = "syscall,status,num_apps"

\* The app report was printed alone after a two-row table and no load.
C7_Witness ==
    /\ last_call = <<>>
    /\ pc = "done"
    /\ args.apps
    /\ ~args.syscalls
    /\ Len(syscalls.keys) = 2
    /\ Len(stdout) = 1

-----------------------------------------------------------------------------
(* C9 *)

\* A symbol of the latest call's document that is in the table with a status
\* text outside the nine names
ReferencesRawStatus ==
    /\ last_call # <<>>
    /\ ~JsonRaises(last_call[2])
    /\ \E x \in DocSymbols(last_call[2]) :
          x \in DOMAIN syscalls.val /\ syscalls.val[x].status \notin Statuses

\* C9: a row whose non-empty status text matches no keyword keeps that text
\* as its status, and a call for an application that references that syscall
\* returns without failure, with the application's name on the record's apps
\* list.
C9_RawStatusIsNoError ==
    ReferencesRawStatus =>
        /\ raised = ""
        /\ pc # "failed"
        /\ \A x \in DocSymbols(last_call[2]) :
              x \in DOMAIN syscalls.val =>
                  \E i \in 1..Len(syscalls.val[x].apps) : syscalls.val[x].apps[i] = last_call[1]

-----------------------------------------------------------------------------
(* C10 *)

\* C10: when an application name was loaded more than once, the stored
\* record holds no symbol that only an earlier document referenced, and its
\* bucket lengths sum to the size of the latest document's symbol set.
C10_LastLoaderWins ==
    \A a \in AppKeys :
        (StoredByReturnedCall(a) /\ LastLoadOf(a) > 0) =>
            LET S == loaded[LastLoadOf(a)][2]
            IN  /\ BucketSum(a) = Cardinality(S)
                /\ \A st \in Statuses : Range(Bucket(a, st)) \subseteq S

\* The same name was loaded twice; the first document referenced fork and
\* the second did not.
C10_Witness ==
    /\ raised = ""
    /\ Len(loaded) = 2
    /\ loaded[1][1] = loaded[2][1]
    /\ "fork" \in loaded[1][2]
    /\ loaded[2][2] = {"brk"}
    /\ BucketSum(loaded[2][1]) = 1

-----------------------------------------------------------------------------
(* C6 *)

\* The keywords in the claimed priority order, with their statuses
ClaimedKeyword ==
    <<"incomplete", "registration missing", "stubbed", "planned", "progress",
      "broken", "okay">>

ClaimedStatus ==
    <<"INCOMPLETE", "REG_MISS", "STUBBED", "PLANNED", "IN_PROGRESS", "BROKEN", "OKAY">>

\* C6: the normalizer maps the empty text to NOT_IMPL; a non-empty text to
\* the status of the earliest keyword, in the order incomplete, registration
\* missing, stubbed, planned, progress, broken, okay, that it contains
\* (case-sensitive); and a text containing none of them to itself.
C6_FirstMatchWins ==
    npc = "once" =>
        /\ status_cell = "" => status_str = "NOT_IMPL"
        /\ \A k \in 1..7 :
              ( /\ status_cell # ""
                /\ Contains(ClaimedKeyword[k], status_cell)
                /\ \A j \in 1..(k - 1) : ~Contains(ClaimedKeyword[j], status_cell) )
              => status_str = ClaimedStatus[k]
        /\ ( /\ status_cell # ""
             /\ \A k \in 1..7 : ~Contains(ClaimedKeyword[k], status_cell) )
           => status_str = status_cell

\* A cell holding two keywords was normalized to the status of the earlier
\* rule, which is not the keyword that comes first in the text.
C6_Witness ==
    /\ npc = "once"
    /\ status_cell = "okaybroken"
    /\ status_str = "BROKEN"

-----------------------------------------------------------------------------
(* C8 *)

\* C8: the normalizer returns each of the nine status names unchanged.
C8_StatusNamesAreFixed ==
    (npc \in {"once", "twice"} /\ status_cell \in Statuses) => status_str = status_cell

\* The normalizer ran on the name IN_PROGRESS.
C8_Witness ==
    npc = "once" /\ status_cell = "IN_PROGRESS" /\ status_str = "IN_PROGRESS"

====
